---------------------------- MODULE Spec2Model ----------------------------
(***************************************************************************)
(* The text-to-SQL pipeline of src/text_to_sql.py (class Pipeline): table  *)
(* selection, schema-aware query generation, execution, error-driven retry *)
(* and summarisation, over the two cached fields available_tables and      *)
(* table_schemas.                                                          *)
(*                                                                         *)
(* Text is a sequence of characters.  A character is a one-character       *)
(* string; a longer string inside a text stands for a run of characters    *)
(* the code never looks into (a word, or a fixed phrase of a format        *)
(* string), so that every operation of the code on the text (strip, split, *)
(* find, slices at fixed offsets, startswith) treats it as it would treat  *)
(* its characters.                                                         *)
(* An Optional[str] is a record [some, v]; None is [some |-> FALSE].       *)
(***************************************************************************)
EXTENDS Integers, Sequences, FiniteSets, TLC

----------------------------------------------------------------------------
(* Bounds of the model *)

NumReqs == 2

\* The greatest number of pieces of a response text of ExecutionReplies.
MaxText == 1

\* The greatest number of pieces of a completion text of Completions.
MaxParts == 6

(* Constants of the program *)

max_attempts == 3

----------------------------------------------------------------------------
(* Characters and the str operations of Python *)

NL == "newline"
SP == " "
COMMA == ","
BQ == "backquote"
CROSS == "x_mark"
CHECK == "check_mark"

None == [some |-> FALSE, v |-> <<>>]
Some(s) == [some |-> TRUE, v |-> s]

\* Python truthiness of an Optional[str]: None and "" are falsy.
Truthy(o) == o.some /\ o.v # <<>>

IsSpace(c) == c \in {SP, NL}

Slice(s, from, to) == IF to < from THEN <<>> ELSE SubSeq(s, from, to)

RECURSIVE LStrip(_)
LStrip(s) == IF s # <<>> /\ IsSpace(Head(s)) THEN LStrip(Tail(s)) ELSE s

RECURSIVE RStrip(_)
RStrip(s) ==
  IF s # <<>> /\ IsSpace(s[Len(s)]) THEN RStrip(SubSeq(s, 1, Len(s) - 1)) ELSE s

\* str.strip()
Strip(s) == RStrip(LStrip(s))

\* True iff pat occurs in s at position i (1-based).
MatchAt(s, pat, i) ==
  /\ i >= 1
  /\ i + Len(pat) - 1 <= Len(s)
  /\ \A k \in 1..Len(pat) : s[i + k - 1] = pat[k]

\* str.find(pat, from): the least position >= from where pat occurs, 0 if none
\* (positions are 1-based; -1 of Python is 0 here).
Find(s, pat, from) ==
  LET hits == {i \in from..Len(s) : MatchAt(s, pat, i)}
  IN IF hits = {} THEN 0 ELSE CHOOSE i \in hits : \A j \in hits : i <= j

\* str.split(sep) for a one-character separator: always at least one part.
RECURSIVE Split(_, _)
Split(s, sep) ==
  LET p == Find(s, <<sep>>, 1)
  IN IF p = 0 THEN <<s>>
     ELSE <<Slice(s, 1, p - 1)>> \o Split(Slice(s, p + 1, Len(s)), sep)

\* x in list
InList(x, list) == \E i \in 1..Len(list) : list[i] = x

RECURSIVE Filter(_, _)
Filter(list, keep) ==
  IF list = <<>> THEN <<>>
  ELSE (IF Head(list) \in keep THEN <<Head(list)>> ELSE <<>>)
       \o Filter(Tail(list), keep)

Range(f) == {f[i] : i \in DOMAIN f}


----------------------------------------------------------------------------
(* Replies of the two collaborator services.  A reply is                   *)
(*   kind = "payload"   : the call returned its payload key (tables,       *)
(*                        columns, result) or, for a completion, status    *)
(*                        200 with the content val;                        *)
(*   kind = "error"     : the call returned without the payload key; val   *)
(*                        is the error string (data.get("error", ...));    *)
(*   kind = "exception" : the call raised (transport fault, timeout); val  *)
(*                        is str(e);                                       *)
(*   kind = "unsized"   : the call returned its payload key with a value   *)
(*                        that has no length (null); val is that value.    *)

Reply(kind, val) == [kind |-> kind, val |-> val]

\* Table names
TA == <<"A">>
TB == <<"B">>

\* GET /tables
TablesReplies ==
  { Reply("payload", <<TA, TB>>), Reply("payload", <<TB>>),
    Reply("payload", <<>>), Reply("error", <<"db", SP, "down">>) }

\* A column as the pipeline reads it: col[0], col[1] need a sequence
\* (shape "tuple"); a JSON object (shape "dict") has no key 0.
Column(shape, name, type) == [shape |-> shape, name |-> name, type |-> type]

ColsV1 == << Column("tuple", "item_id", "VARCHAR") >>
ColsV2 == << Column("tuple", "item_id", "VARCHAR"), Column("tuple", "model", "VARCHAR") >>
ColsDict == << Column("dict", "item_id", "VARCHAR") >>

\* {"columns": null}: the key is there and its value is no list.  The value
\* has no length and no elements to read; it is written as one entry of
\* shape "null" so that the cache can hold it beside lists of columns.
NullColumns == << Column("null", "", "") >>

\* GET /schema/{table}
SchemaReplies ==
  { Reply("payload", ColsV1), Reply("payload", ColsV2),
    Reply("payload", ColsDict), Reply("exception", <<"timeout">>) }

\* Completions of the classifier model (before chat_completion strips them)
ClassifierReplies ==
  { Reply("payload", <<"a", COMMA, SP, "A">>),
    Reply("payload", <<"B", COMMA, SP, "A", NL>>),
    Reply("payload", <<"Z", COMMA, "B">>),
    Reply("payload", <<"a">>),
    Reply("error", <<"model", SP, "not", SP, "found">>) }

\* Completions of the query-generation model
RawPlain == <<SP, "SELECT", SP, "1", NL>>
RawFenced == <<BQ, BQ, BQ, "sql", NL, "SELECT", NL, SP, SP, "2", NL, BQ, BQ, BQ>>
RawFenceOneLine == <<BQ, BQ, BQ, "SELECT", SP, "3", BQ, BQ, BQ>>
RawEmptyFence == <<BQ, BQ, BQ, "sql", NL, BQ, BQ, BQ>>

SynthReplies ==
  { Reply("payload", RawPlain), Reply("payload", RawFenced),
    Reply("payload", RawFenceOneLine), Reply("payload", RawEmptyFence),
    Reply("exception", <<"timeout">>) }

\* GET /query
Rows == <<"[(1,)]">>
ErrOneLine == <<"no", SP, "such", SP, "column">>
ErrTwoLines == <<"syntax", SP, "error", NL, "near", SP, "FROM">>
FaultText == <<"timeout">>

ExecReplies ==
  { Reply("payload", Rows), Reply("error", ErrOneLine),
    Reply("error", ErrTwoLines), Reply("exception", FaultText) }

\* Completions of the output model
SummaryReplies ==
  { Reply("payload", <<"one", SP, "row", NL>>), Reply("error", <<"busy">>) }

Questions == { <<"how", SP, "many", SP, "models">> }

----------------------------------------------------------------------------
(* The components, as functions of the reply of their outbound call *)

\* chat_completion: the stripped content on status 200, else None.
ChatCompletion(reply) ==
  IF reply.kind = "payload" THEN Some(Strip(reply.val)) ELSE None

\* Mutant of FetchTables: the fetched names are merged into the cached ones.
FetchTables_Merged(reply, current) ==
  IF reply.kind = "payload"
  THEN [ok |-> TRUE, tables |-> current \o reply.val]
  ELSE [ok |-> FALSE, tables |-> current]

\* fetch_tables: the new value of available_tables and the returned flag.
FetchTables(reply, current) ==
  IF reply.kind = "payload"
  THEN [ok |-> TRUE, tables |-> reply.val]
  ELSE [ok |-> FALSE, tables |-> current]

\* Mutant of FetchSchema: the entry is cached before its columns are there.
FetchSchema_Partial(reply, table_name, current) ==
  IF reply.kind = "payload"
  THEN [ok |-> TRUE, schemas |-> (table_name :> <<>>) @@ current]
  ELSE [ok |-> FALSE, schemas |-> current]

\* fetch_schema: the new value of table_schemas and the returned flag.  The
\* entry is stored before the log line that takes len() of the columns: for
\* a value without a length the line raises and the fetch returns False.
FetchSchema(reply, table_name, current) ==
  IF reply.kind = "payload"
  THEN [ok |-> TRUE, schemas |-> (table_name :> reply.val) @@ current]
  ELSE IF reply.kind = "unsized"
  THEN [ok |-> FALSE, schemas |-> (table_name :> reply.val) @@ current]
  ELSE [ok |-> FALSE, schemas |-> current]

RECURSIVE StripAll(_)
StripAll(parts) ==
  IF parts = <<>> THEN <<>> ELSE <<Strip(Head(parts))>> \o StripAll(Tail(parts))

\* str.lower, on the letters of the names used here.
Lower(name) ==
  [i \in DOMAIN name |->
     CASE name[i] = "A" -> "a" [] name[i] = "B" -> "b" [] name[i] = "Z" -> "z"
       [] OTHER -> name[i]]

\* Mutant of ValidTables: the names are compared without regard to case.
ValidTables_IgnoreCase(completion, available) ==
  IF Truthy(completion)
  THEN Filter(StripAll(Split(completion.v, COMMA)),
              {n \in Range(StripAll(Split(completion.v, COMMA))) :
                 Lower(n) \in {Lower(a) : a \in Range(available)}})
  ELSE <<>>

\* Mutant of ValidTables: the names are not validated.
ValidTables_Unfiltered(completion, available) ==
  IF Truthy(completion) THEN StripAll(Split(completion.v, COMMA)) ELSE <<>>

\* select_relevant_tables, after the completion: the names of the completion
\* that are in available_tables, in the order named.
ValidTables(completion, available) ==
  IF Truthy(completion)
  THEN Filter(StripAll(Split(completion.v, COMMA)), Range(available))
  ELSE <<>>

\* Mutant of JoinLines: the lines are put together as they are.
RECURSIVE JoinLines_Raw(_)
JoinLines_Raw(lines) ==
  IF lines = <<>> THEN <<>>
  ELSE IF Tail(lines) = <<>> THEN Head(lines)
  ELSE Head(lines) \o <<NL>> \o JoinLines_Raw(Tail(lines))

\* " ".join(line.strip() for line in sql.splitlines() if line.strip())
RECURSIVE JoinLines(_)
JoinLines(lines) ==
  IF lines = <<>> THEN <<>>
  ELSE LET l == Strip(Head(lines))
           rest == JoinLines(Tail(lines))
       IN IF l = <<>> THEN rest
          ELSE IF rest = <<>> THEN l
          ELSE l \o <<SP>> \o rest

Fence == <<BQ, BQ, BQ>>

\* generate_sql_query, after the completion (the try block): the cleaned
\* query, or None when the block raises (no response: sql_query is unbound;
\* a fence with no line break after it: split(...)[1] is out of range).
CleanResponse(completion) ==
  IF ~Truthy(completion) THEN None
  ELSE
    LET response == completion.v
        s1 == Find(response, Fence \o <<"sql">>, 1)
        start == IF s1 = 0 THEN Find(response, Fence, 1) ELSE s1
        end == IF start = 0 THEN 0 ELSE Find(response, Fence, start + 3)
        seg == IF end # 0 THEN Slice(response, start, end - 1)
               ELSE Slice(response, start, Len(response))
        nl == Find(seg, <<NL>>, 1)
    IN IF start # 0 /\ nl = 0 THEN None
       ELSE LET sql == IF start # 0 THEN Strip(Slice(seg, nl + 1, Len(seg)))
                       ELSE Strip(response)
            IN Some(JoinLines(Split(sql, NL)))

\* Mutant of FetchQueryResult: a fault is reported as a result without rows.
FetchQueryResult_FaultAsResult(reply) ==
  IF reply.kind = "payload" THEN <<CHECK, SP, "Results:", NL>> \o reply.val
  ELSE IF reply.kind = "error" THEN <<CROSS, SP, "Error:", NL>> \o reply.val
  ELSE <<CHECK, SP, "Results:", NL>>

\* fetch_query_result: the result text of one GET /query.
FetchQueryResult(reply) ==
  IF reply.kind = "payload" THEN <<CHECK, SP, "Results:", NL>> \o reply.val
  ELSE IF reply.kind = "error" THEN <<CROSS, SP, "Error:", NL>> \o reply.val
  ELSE <<CROSS, SP, "Request", SP, "failed:", SP>> \o reply.val

\* Mutant of IsFailure: the mark of failure is looked for anywhere in the
\* result.
IsFailure_Anywhere(result) == InList(CROSS, result)

\* result.startswith(CROSS)
IsFailure(result) == result # <<>> /\ Head(result) = CROSS

\* _try_execute_query: the error message taken from a failed result.
ErrorMessage(result) ==
  IF InList(NL, result) THEN Split(result, NL)[2]
  ELSE Strip(Slice(result, 3, Len(result)))

\* _try_execute_query: what is appended to the question for the synthesizer.
ErrorContext(previous_error) ==
  IF Truthy(previous_error)
  THEN <<NL, "Previous attempt failed with error:", SP>> \o previous_error.v
       \o <<NL, "Please fix the query accordingly.">>
  ELSE <<>>

\* summarize_results, after the completion.
Summarize(completion) ==
  IF Truthy(completion) THEN Some(Strip(completion.v)) ELSE None

----------------------------------------------------------------------------
(* State *)

VARIABLES
  started,            \* on_startup has run
  available_tables,   \* Pipeline.available_tables
  table_schemas,      \* Pipeline.table_schemas: table name -> columns
  req                 \* per request: the frame of pipe/process and its callees

vars == <<started, available_tables, table_schemas, req>>

Reqs == 1..NumReqs

EmptyMap == [t \in {} |-> <<>>]

\* The third component of the tuple _try_execute_query returns.
NoError == [some |-> FALSE, phrase |-> "", n |-> 0, text |-> <<>>]
GenerateError ==
  [some |-> TRUE, phrase |-> "Failed to generate SQL query", n |-> 0, text |-> <<>>]
ExhaustedError(n, message) ==
  [some |-> TRUE, phrase |-> "Failed after {n} attempts. Last error: {text}",
   n |-> n, text |-> message]

\* The string pipe returns, by its parts.
NoResponse ==
  [kind |-> "none", tables |-> <<>>, error |-> NoError, sql_query |-> None,
   result |-> None, summary |-> None, text |-> <<>>]
NoRelevantTable == [NoResponse EXCEPT !.kind = "Failed to identify relevant tables"]
FailedToExecute(error) ==
  [NoResponse EXCEPT !.kind = "Failed to execute query", !.error = error]
\* Mutant of Answer: without a summary pipe reports a failure.
Answer_SummaryRequired(tables, error, sql_query, result, summary) ==
  IF Truthy(summary)
  THEN [NoResponse EXCEPT !.kind = "answer", !.tables = tables, !.error = error,
                          !.sql_query = sql_query, !.result = result,
                          !.summary = summary]
  ELSE [NoResponse EXCEPT !.kind = "Error", !.text = <<"no", SP, "summary">>]

Answer(tables, error, sql_query, result, summary) ==
  [NoResponse EXCEPT !.kind = "answer", !.tables = tables, !.error = error,
                     !.sql_query = sql_query, !.result = result,
                     !.summary = summary]

\* Mutant of ErrorResponse: the exception leaves pipe and the caller has no
\* string.
ErrorResponse_Propagates(text) == NoResponse

\* except Exception as e: return f"Error: {str(e)}"
ErrorResponse(text) == [NoResponse EXCEPT !.kind = "Error", !.text = text]

\* A request that has not arrived.
IdleReq ==
  [pc |-> "idle", question |-> <<>>, selected |-> <<>>, attempt |-> 0,
   previous_error |-> None, idx |-> 0, schemas |-> EmptyMap,
   sql_query |-> None, result |-> None, error |-> NoError,
   response |-> NoResponse,
   log |-> <<>>]

\* The log of a request: the calls it made and what they returned, in order.
Call(op, attempt, arg) == [op |-> op, ph |-> "call", attempt |-> attempt, val |-> arg]
Return(op, attempt, out) == [op |-> op, ph |-> "return", attempt |-> attempt, val |-> out]
Raise(op, attempt, text) == [op |-> op, ph |-> "raise", attempt |-> attempt, val |-> text]

Logged(s, e) == [s EXCEPT !.log = Append(@, e)]

Init ==
  /\ started = FALSE
  /\ available_tables = <<>>
  /\ table_schemas = EmptyMap
  /\ req = [r \in Reqs |-> IdleReq]

----------------------------------------------------------------------------
(* Steps of a request.  A request runs from the reply of one outbound call *)
(* to its next outbound call (the next await) in one step.                 *)

\* Mutant of Finish: the response is computed but pipe does not return.
Finish_NoReturn(s, response) == [s EXCEPT !.pc = "pending", !.response = response]

\* pipe returns.
Finish(s, response) == [s EXCEPT !.pc = "done", !.response = response]

\* select_relevant_tables from line 116: the prompt is built from
\* available_tables and the classifier is asked.
AskClassifier(s, available) ==
  Logged([s EXCEPT !.pc = "classify_wait"],
         Call("classifier", 0, [tables |-> available, question |-> s.question]))

\* Mutant of NoSelection: the check of the selection is missing.
NoSelection_Never(selected_tables) == FALSE

\* pipe: an empty selection ends the run.
NoSelection(selected_tables) == selected_tables = <<>>

\* Mutant of GenQuestion: on a retry the question is replaced by the error
\* context.
GenQuestion_ErrorOnly(s) ==
  IF Truthy(s.previous_error) THEN ErrorContext(s.previous_error) ELSE s.question

\* The question generate_sql_query is given in the current attempt.
GenQuestion(s) == s.question \o ErrorContext(s.previous_error)

\* Mutant of NextMiss: the cache is not consulted.
NextMiss_NoCache(tables, cache, i) == IF i <= Len(tables) THEN i ELSE 0

\* The least j >= i with tables[j] not cached, 0 if there is none.
NextMiss(tables, cache, i) ==
  LET miss == {j \in i..Len(tables) : tables[j] \notin DOMAIN cache}
  IN IF miss = {} THEN 0 ELSE CHOOSE j \in miss : \A k \in miss : j <= k

\* The columns named in the prompt, per table: (col[0], col[1]).
SchemaStr(tables, schemas) ==
  [i \in 1..Len(tables) |->
     [table |-> tables[i],
      columns |-> [k \in 1..Len(schemas[tables[i]]) |->
                     <<schemas[tables[i]][k].name, schemas[tables[i]][k].type>>]]]

\* col[0] raises for a column that is no sequence.
PromptRaises(tables, schemas) ==
  \E i \in 1..Len(tables) :
    \E k \in 1..Len(schemas[tables[i]]) : schemas[tables[i]][k].shape # "tuple"

\* Mutant of CompleteFailure: any error ends the run without a summary.
CompleteFailure_AnyError(error, result) == error.some

\* pipe: the run failed with nothing to show.
CompleteFailure(error, result) == error.some /\ ~Truthy(result)

\* pipe after _try_execute_query returned with a result: the summarizer is
\* called.
AskSummarizer(s) ==
  Logged(Logged([s EXCEPT !.pc = "summ_wait"],
                Call("summarize", s.attempt,
                     [question |-> s.question, tables |-> s.selected,
                      sql_query |-> s.sql_query, result |-> s.result])),
         Call("output", s.attempt, <<>>))

\* Mutant of AfterTryExecute: the check for a complete failure is missing
\* and the summary is always asked for.
AfterTryExecute_AlwaysSummarize(s) == AskSummarizer(s)

\* Mutant of AfterTryExecute: the recursive call is awaited but its value is
\* not returned, so the outermost frame returns its own query and result
\* with no error.
AfterTryExecute_OuterFrame(s) ==
  LET calls == {i \in 1..Len(s.log) : s.log[i].op = "execute" /\ s.log[i].ph = "call"}
      rets == {i \in 1..Len(s.log) : s.log[i].op = "execute" /\ s.log[i].ph = "return"}
      c == CHOOSE i \in calls : \A j \in calls : i <= j
      t == CHOOSE i \in rets : \A j \in rets : i <= j
  IN IF rets = {}
     THEN Finish(s, FailedToExecute(s.error))
     ELSE AskSummarizer([s EXCEPT !.sql_query = Some(s.log[c].val),
                                  !.result = Some(s.log[t].val),
                                  !.error = NoError])

\* pipe from the return of _try_execute_query (through every level of its
\* recursion) to the next await or to the return of pipe.
AfterTryExecute(s) ==
  IF CompleteFailure(s.error, s.result)
  THEN Finish(s, FailedToExecute(s.error))
  ELSE AskSummarizer(s)

\* Mutant of SynthesisFailed: the check of the query is missing and the
\* empty query is executed.
SynthesisFailed_Executes(s, out) ==
  Logged(Logged(Logged([s EXCEPT !.pc = "exec_wait", !.sql_query = Some(<<>>)],
                       Return("synthesize", s.attempt, out)),
                Call("execute", s.attempt, <<>>)),
         Call("query", s.attempt, <<>>))

\* generate_sql_query returned None or "": _try_execute_query returns
\* (None, None, "Failed to generate SQL query").
SynthesisFailed(s, out) ==
  AfterTryExecute(Logged([s EXCEPT !.sql_query = None, !.result = None,
                                   !.error = GenerateError],
                         Return("synthesize", s.attempt, out)))

\* generate_sql_query from the loop over tables at index s.idx: cached tables
\* are copied to the local schemas; the first table not cached is fetched;
\* with every schema at hand the prompt is built and the model is asked.
GenLoop(s, cache) ==
  LET tables == s.selected
      j == NextMiss(tables, cache, s.idx)
      upto == IF j = 0 THEN Len(tables) ELSE j - 1
      done == {tables[k] : k \in s.idx..upto}
      schemas == [t \in (DOMAIN s.schemas) \cup done |->
                    IF t \in done THEN cache[t] ELSE s.schemas[t]]
      s1 == [s EXCEPT !.schemas = schemas]
  IN IF j # 0
     THEN Logged([s1 EXCEPT !.pc = "schema_wait", !.idx = j],
                 Call("fetch_schema", s.attempt, tables[j]))
     ELSE IF PromptRaises(tables, schemas)
     THEN Finish(Logged(s1, Raise("synthesize", s.attempt, <<"0">>)),
                 ErrorResponse(<<"0">>))
     ELSE Logged([s1 EXCEPT !.pc = "synth_wait", !.idx = Len(tables) + 1],
                 Call("query_generation", s.attempt,
                      [schemas |-> SchemaStr(tables, schemas),
                       question |-> GenQuestion(s)]))

\* Mutant of TryExecuteQuery: a retry executes the last query again, with no
\* new synthesis.
TryExecuteQuery_Reexecute(s, attempt, previous_error, cache) ==
  LET s1 == [s EXCEPT !.attempt = attempt, !.previous_error = previous_error,
                      !.idx = 1, !.schemas = EmptyMap]
  IN IF attempt > 1
     THEN Logged(Logged([s1 EXCEPT !.pc = "exec_wait"],
                        Call("execute", attempt, s.sql_query.v)),
                 Call("query", attempt, s.sql_query.v))
     ELSE GenLoop(Logged(s1, Call("synthesize", attempt,
                                  [tables |-> s1.selected,
                                   question |-> GenQuestion(s1)])),
                  cache)

\* _try_execute_query is entered (first call or recursion) and calls
\* generate_sql_query.
TryExecuteQuery(s, attempt, previous_error, cache) ==
  LET s1 == [s EXCEPT !.attempt = attempt, !.previous_error = previous_error,
                      !.idx = 1, !.schemas = EmptyMap]
  IN GenLoop(Logged(s1, Call("synthesize", attempt,
                             [tables |-> s1.selected,
                              question |-> GenQuestion(s1)])),
             cache)

\* Mutant of CallExecutor: the query is executed with a row limit added
\* to the Synthesizer's output.
CallExecutor_Limited(s) ==
  Logged(Logged([s EXCEPT !.pc = "exec_wait"],
                Call("execute", s.attempt, s.sql_query.v \o <<SP, "TOP">>)),
         Call("query", s.attempt, s.sql_query.v \o <<SP, "TOP">>))

\* Mutant of CallExecutor: the request is sent a second time.
CallExecutor_Twice(s) ==
  Logged(Logged(Logged([s EXCEPT !.pc = "exec_wait"],
                       Call("execute", s.attempt, s.sql_query.v)),
                Call("query", s.attempt, s.sql_query.v)),
         Call("query", s.attempt, s.sql_query.v))

\* _try_execute_query calls fetch_query_result with the query, which sends
\* one GET /query with the query as its parameter.
CallExecutor(s) ==
  Logged(Logged([s EXCEPT !.pc = "exec_wait"],
                Call("execute", s.attempt, s.sql_query.v)),
         Call("query", s.attempt, s.sql_query.v))

\* Mutant of EnterRetryController: the attempts are counted from 0.
EnterRetryController_FromZero(s, cache) == TryExecuteQuery(s, 0, None, cache)

\* pipe calls _try_execute_query with the defaults of its parameters:
\* attempt = 1 and previous_error = None.
EnterRetryController(s, cache) == TryExecuteQuery(s, 1, None, cache)

\* Mutant of MayRetry: the attempts are counted on the pipeline, over the
\* failed Executor calls of every request in progress.
MayRetry_Shared(attempt) ==
  Cardinality({ <<r, i>> \in Reqs \X (1..(4 * max_attempts + 8)) :
                  /\ i <= Len(req[r].log)
                  /\ req[r].log[i].op = "query" /\ req[r].log[i].ph = "return"
                  /\ req[r].log[i].val.kind # "payload" }) + 1 < max_attempts

\* Mutants of MayRetry: one retry too many; one retry too few.
MayRetry_OneMore(attempt) == attempt <= max_attempts
MayRetry_OneLess(attempt) == attempt < max_attempts - 1

\* _try_execute_query: a failed attempt is retried.
MayRetry(attempt) == attempt < max_attempts

----------------------------------------------------------------------------
(* Actions *)

\* on_startup: the table list is fetched once, before requests are served.
OnStartupWith(replies) ==
  /\ ~started
  /\ started' = TRUE
  /\ \E reply \in replies :
       available_tables' = FetchTables(reply, available_tables).tables
  /\ UNCHANGED <<table_schemas, req>>

OnStartup == OnStartupWith(TablesReplies)

\* pipe is called: select_relevant_tables runs to its first await, the table
\* fetch if available_tables is empty, else the classifier completion.
Start(r) ==
  /\ started
  /\ req[r].pc = "idle"
  /\ \E q \in Questions :
       LET s == Logged([IdleReq EXCEPT !.question = q], Call("select", 0, q))
       IN req' = [req EXCEPT ![r] =
                    IF available_tables = <<>>
                    THEN Logged([s EXCEPT !.pc = "tables_wait"],
                                Call("fetch_tables", 0, <<>>))
                    ELSE AskClassifier(s, available_tables)]
  /\ UNCHANGED <<started, available_tables, table_schemas>>

\* As Start, for a pipeline that serves one request at a time.
StartAlone(r) ==
  /\ \A o \in Reqs : req[o].pc = "idle"
  /\ Start(r)

\* The table fetch of select_relevant_tables returns.
FetchTablesReturnWith(r, replies) ==
  /\ req[r].pc = "tables_wait"
  /\ \E reply \in replies :
       LET f == FetchTables(reply, available_tables)
       IN /\ available_tables' = f.tables
          /\ req' = [req EXCEPT ![r] =
                       AskClassifier(Logged(@, Return("fetch_tables", 0, reply)),
                                     f.tables)]
  /\ UNCHANGED <<started, table_schemas>>

FetchTablesReturn(r) == FetchTablesReturnWith(r, TablesReplies)

\* The classifier completion returns: the names are validated against
\* available_tables; pipe stops on an empty selection, else enters
\* _try_execute_query with attempt 1 and no previous error.
ClassifierReturn(r) ==
  /\ req[r].pc = "classify_wait"
  /\ \E reply \in ClassifierReplies :
       LET valid == ValidTables(ChatCompletion(reply), available_tables)
           s == Logged(Logged(req[r], Return("classifier", 0, reply)),
                       Return("select", 0, valid))
       IN req' = [req EXCEPT ![r] =
                    IF NoSelection(valid)
                    THEN Finish(s, NoRelevantTable)
                    ELSE EnterRetryController([s EXCEPT !.selected = valid],
                                              table_schemas)]
  /\ UNCHANGED <<started, available_tables, table_schemas>>

\* The schema fetch of generate_sql_query returns: on success the columns
\* are cached and the loop goes on; on failure generate_sql_query returns
\* None.
FetchSchemaReturnWith(r, replies) ==
  /\ req[r].pc = "schema_wait"
  /\ \E reply \in replies :
       LET table == req[r].selected[req[r].idx]
           f == FetchSchema(reply, table, table_schemas)
           s == Logged(req[r], Return("fetch_schema", req[r].attempt, reply))
       IN /\ table_schemas' = f.schemas
          /\ req' = [req EXCEPT ![r] =
                       IF f.ok
                       THEN GenLoop([s EXCEPT !.schemas = (table :> f.schemas[table]) @@ @,
                                              !.idx = @ + 1],
                                    f.schemas)
                       ELSE SynthesisFailed(s, None)]
  /\ UNCHANGED <<started, available_tables>>

FetchSchemaReturn(r) == FetchSchemaReturnWith(r, SchemaReplies)

\* The query-generation completion returns: the response is cleaned; an
\* empty or missing query ends the run, else the query is executed.  (The
\* locals are bound by \E over a one-element set: their value is the same
\* and it is computed once.)
SynthesizerReturnWith(r, replies) ==
  /\ req[r].pc = "synth_wait"
  /\ \E reply \in replies :
       \E sql_query \in {CleanResponse(ChatCompletion(reply))} :
       \E s \in {Logged(req[r], Return("query_generation", req[r].attempt, reply))} :
          req' = [req EXCEPT ![r] =
                    IF ~Truthy(sql_query)
                    THEN SynthesisFailed(s, sql_query)
                    ELSE CallExecutor(
                           Logged([s EXCEPT !.sql_query = sql_query],
                                  Return("synthesize", s.attempt, sql_query)))]
  /\ UNCHANGED <<started, available_tables, table_schemas>>

SynthesizerReturn(r) == SynthesizerReturnWith(r, SynthReplies)

\* GET /query returns: a failed result is retried while attempt <
\* max_attempts; the last failure and a success go on to the summarizer.
\* (Locals bound as in SynthesizerReturnWith.)
ExecutorReturnWith(r, replies) ==
  /\ req[r].pc = "exec_wait"
  /\ \E reply \in replies :
       \E result \in {FetchQueryResult(reply)} :
       \E s \in {Logged(Logged([req[r] EXCEPT !.result = Some(result)],
                              Return("query", req[r].attempt, reply)),
                       Return("execute", req[r].attempt, result))} :
       \E error_message \in {ErrorMessage(result)} :
          req' = [req EXCEPT ![r] =
                    IF IsFailure(result)
                    THEN IF MayRetry(s.attempt)
                         THEN TryExecuteQuery(s, s.attempt + 1,
                                              Some(error_message), table_schemas)
                         ELSE AfterTryExecute(
                                [s EXCEPT !.error =
                                   ExhaustedError(max_attempts, error_message)])
                    ELSE AfterTryExecute([s EXCEPT !.error = NoError])]
  /\ UNCHANGED <<started, available_tables, table_schemas>>

ExecutorReturn(r) == ExecutorReturnWith(r, ExecReplies)

\* The summary completion returns and pipe returns its answer.
SummarizerReturn(r) ==
  /\ req[r].pc = "summ_wait"
  /\ \E reply \in SummaryReplies :
       LET summary == Summarize(ChatCompletion(reply))
           s == Logged(Logged(req[r], Return("output", req[r].attempt, reply)),
                       Return("summarize", req[r].attempt, summary))
       IN req' = [req EXCEPT ![r] =
                    Finish(s, Answer(s.selected, s.error, s.sql_query,
                                     s.result, summary))]
  /\ UNCHANGED <<started, available_tables, table_schemas>>

\* The caller has the answer; the slot is free for the next request.
Done(r) ==
  /\ req[r].pc = "done"
  /\ req' = [req EXCEPT ![r] = IdleReq]
  /\ UNCHANGED <<started, available_tables, table_schemas>>

\* One request at a time.
Next ==
  \/ OnStartup
  \/ \E r \in Reqs :
       \/ StartAlone(r)
       \/ FetchTablesReturn(r)
       \/ ClassifierReturn(r)
       \/ FetchSchemaReturn(r)
       \/ SynthesizerReturn(r)
       \/ ExecutorReturn(r)
       \/ SummarizerReturn(r)
       \/ Done(r)

Spec == Init /\ [][Next]_vars

----------------------------------------------------------------------------
(* Requests served concurrently: every await is a point where another      *)
(* request of the same pipeline may run.  The replies are those of Spec,   *)
(* kept to the ones below so that the interleavings can be enumerated.     *)

ConcurrentReplies(op) ==
  CASE op = "fetch_tables" ->
         { Reply("payload", <<TA, TB>>), Reply("payload", <<TB>>),
           Reply("error", <<"db", SP, "down">>) }
    [] op = "classifier" ->
         { Reply("payload", <<"B", COMMA, SP, "A", NL>>) }
    [] op = "fetch_schema" ->
         { Reply("payload", ColsV1), Reply("exception", <<"timeout">>) }
    [] op = "query_generation" ->
         { Reply("payload", RawPlain) }
    [] op = "query" ->
         { Reply("payload", Rows), Reply("error", ErrOneLine) }
    [] op = "output" ->
         { Reply("payload", <<"one", SP, "row", NL>>) }

Outbound ==
  {"fetch_tables", "classifier", "fetch_schema", "query_generation", "query", "output"}

\* Every reply logged is one of ConcurrentReplies.
ConcurrentScope ==
  \A r \in Reqs :
    \A i \in 1..Len(req[r].log) :
      LET e == req[r].log[i]
      IN (e.ph = "return" /\ e.op \in Outbound) => e.val \in ConcurrentReplies(e.op)

NextConcurrent ==
  \/ OnStartup
  \/ \E r \in Reqs :
       \/ Start(r)
       \/ FetchTablesReturn(r) /\ ConcurrentScope'
       \/ ClassifierReturn(r) /\ ConcurrentScope'
       \/ FetchSchemaReturn(r) /\ ConcurrentScope'
       \/ SynthesizerReturn(r) /\ ConcurrentScope'
       \/ ExecutorReturn(r) /\ ConcurrentScope'
       \/ SummarizerReturn(r) /\ ConcurrentScope'
       \/ Done(r)

SpecConcurrent == Init /\ [][NextConcurrent]_vars

----------------------------------------------------------------------------
(* Reading the log of a request *)

\* The positions of the calls of op in a log.
CallsOf(log, op) == {i \in 1..Len(log) : log[i].op = op /\ log[i].ph = "call"}

\* The positions of the returns of op in a log.
ReturnsOf(log, op) == {i \in 1..Len(log) : log[i].op = op /\ log[i].ph = "return"}

\* The positions where GET /query returned without a result.
FailedQueries(log) == {i \in ReturnsOf(log, "query") : log[i].val.kind # "payload"}

\* The greatest position of a non-empty set of positions.
Last(positions) == CHOOSE i \in positions : \A j \in positions : j <= i

\* The run ended with its last Executor call failed and no Synthesizer call
\* after it.
EndedExhausted(s) ==
  /\ s.pc = "done"
  /\ FailedQueries(s.log) # {}
  /\ Last(ReturnsOf(s.log, "query")) \in FailedQueries(s.log)
  /\ Last(CallsOf(s.log, "synthesize")) < Last(ReturnsOf(s.log, "query"))

\* The run ended because the Synthesizer gave no query.
EndedOnSynthesis(s) ==
  /\ s.pc = "done"
  /\ \E i \in ReturnsOf(s.log, "synthesize") : ~Truthy(s.log[i].val)

----------------------------------------------------------------------------
(* C1: in every run, whatever the synthesizer and executor outcomes, the   *)
(* Retry Controller makes at most max_attempts Executor calls.             *)
C1_ExecutorCallsBounded ==
  \A r \in Reqs : Cardinality(CallsOf(req[r].log, "execute")) <= max_attempts

\* A run in which all max_attempts Executor calls were made and failed.
C1_Witness ==
  \E r \in Reqs :
    /\ Cardinality(CallsOf(req[r].log, "execute")) = max_attempts
    /\ Cardinality(FailedQueries(req[r].log)) = max_attempts

(* C2, as stated: attempts_made <= max_attempts, and whenever the terminal *)
(* outcome of the Retry Controller is failure, attempts_made equals        *)
(* max_attempts.                                                           *)
C2_Original ==
  \A r \in Reqs :
    /\ req[r].attempt <= max_attempts
    /\ (EndedExhausted(req[r]) \/ EndedOnSynthesis(req[r]))
         => req[r].attempt = max_attempts

(* C2, amended: attempts_made <= max_attempts, and attempts_made equals    *)
(* max_attempts whenever the run ended because the last Executor call      *)
(* failed; a run that ends on a synthesis failure ends in the attempt      *)
(* where synthesis failed.                                                 *)
C2_AttemptsOnExhaustion ==
  \A r \in Reqs :
    /\ req[r].attempt <= max_attempts
    /\ Cardinality(CallsOf(req[r].log, "synthesize")) = req[r].attempt
    /\ EndedExhausted(req[r]) =>
         /\ req[r].attempt = max_attempts
         /\ req[r].response.error.n = max_attempts

\* A run that ended after max_attempts failed Executor calls.
C2_Witness ==
  \E r \in Reqs : EndedExhausted(req[r]) /\ req[r].attempt = max_attempts

\* The position of the one event of op and phase ph in attempt k.
EventOf(log, op, ph, k) ==
  CHOOSE i \in 1..Len(log) : log[i].op = op /\ log[i].ph = ph /\ log[i].attempt = k

\* The texts that count as the error text of a failed GET /query: the error
\* string of the store, or the text of the fault, with or without the
\* "Request failed:" the Executor puts before it.
ErrorTexts(reply) ==
  IF reply.kind = "error" THEN {reply.val}
  ELSE {reply.val, <<"Request", SP, "failed:", SP>> \o reply.val}

\* A question with a prior error appended as the retry does.
WithPriorError(question, text) ==
  question \o <<NL, "Previous attempt failed with error:", SP>> \o text
           \o <<NL, "Please fix the query accordingly.">>

(* C3, as stated: when the Executor fails on attempt k < max_attempts, the *)
(* Synthesizer is invoked again for attempt k+1, and the prior-error       *)
(* context it receives is exactly the error text of the failure of attempt *)
(* k, whole and unmodified.                                                *)
C3_Original ==
  \A r \in Reqs :
    \A i \in FailedQueries(req[r].log) :
      LET log == req[r].log
          k == log[i].attempt
      IN k < max_attempts =>
           \E j \in CallsOf(log, "synthesize") :
             /\ j > i
             /\ log[j].attempt = k + 1
             /\ \E text \in ErrorTexts(log[i].val) :
                  log[j].val.question = WithPriorError(req[r].question, text)

(* C4: if synthesis fails in any attempt, the run ends at once: no         *)
(* Executor call is made in that attempt and no further Synthesizer or     *)
(* Executor call is made in that run.                                      *)
C4_SynthesisFailureEndsRun ==
  \A r \in Reqs :
    \A i \in ReturnsOf(req[r].log, "synthesize") :
      LET log == req[r].log
      IN ~Truthy(log[i].val) =>
           /\ i = Len(log)
           /\ req[r].pc = "done"
           /\ req[r].response.kind = "Failed to execute query"
           /\ \A j \in CallsOf(log, "execute") : log[j].attempt < log[i].attempt

\* A run that ended on a completion without a query in a later attempt.
C4_Witness ==
  \E r \in Reqs :
    LET log == req[r].log
    IN /\ req[r].pc = "done"
       /\ Len(log) >= 2
       /\ log[Len(log)].op = "synthesize" /\ log[Len(log)].ph = "return"
       /\ ~Truthy(log[Len(log)].val)
       /\ log[Len(log) - 1].op = "query_generation"
       /\ log[Len(log)].attempt >= 2

(* C5: when the Executor succeeds on attempt k, the controller ends with   *)
(* success and makes no further Synthesizer or Executor call, and the      *)
(* query and the result reported are those of attempt k, not of an earlier *)
(* failed attempt.                                                         *)
C5_SuccessIsFinal ==
  \A r \in Reqs :
    \A i \in ReturnsOf(req[r].log, "query") :
      LET log == req[r].log
          k == log[i].attempt
      IN log[i].val.kind = "payload" =>
           /\ \A j \in CallsOf(log, "synthesize") \cup CallsOf(log, "execute") : j < i
           /\ req[r].pc \in {"summ_wait", "done"}
           /\ log[EventOf(log, "execute", "call", k)].val
                = log[EventOf(log, "synthesize", "return", k)].val.v
           /\ req[r].pc = "done" =>
                /\ req[r].response.kind = "answer"
                /\ ~req[r].response.error.some
                /\ req[r].response.sql_query
                     = Some(log[EventOf(log, "execute", "call", k)].val)
                /\ req[r].response.result
                     = Some(log[EventOf(log, "execute", "return", k)].val)
                /\ req[r].response.result.v
                     = <<CHECK, SP, "Results:", NL>> \o log[i].val.val

\* A run that succeeded in a later attempt with another query than its first.
C5_Witness ==
  \E r \in Reqs :
    LET log == req[r].log
    IN /\ req[r].pc = "done"
       /\ req[r].response.kind = "answer"
       /\ \E i \in ReturnsOf(log, "query") :
            log[i].val.kind = "payload" /\ log[i].attempt >= 2
       /\ \E j \in CallsOf(log, "execute") : log[j].val # req[r].response.sql_query.v

(* C6: when all max_attempts Executor calls fail, the terminal result      *)
(* exposes a retry count of max_attempts, the query of the last attempt    *)
(* and the error text of the last attempt, and the Summarizer is invoked   *)
(* once, with that failed outcome.                                         *)
C6_ExhaustionReported ==
  \A r \in Reqs :
    LET log == req[r].log
        resp == req[r].response
    IN (req[r].pc = "done" /\ Cardinality(FailedQueries(log)) = max_attempts) =>
         LET q == EventOf(log, "query", "return", max_attempts)
             text == log[q].val.val
             n == Len(resp.result.v)
         IN /\ resp.kind = "answer"
            /\ resp.error.some /\ resp.error.n = max_attempts
            /\ resp.sql_query
                 = Some(log[EventOf(log, "execute", "call", max_attempts)].val)
            /\ resp.result
                 = Some(log[EventOf(log, "execute", "return", max_attempts)].val)
            /\ Head(resp.result.v) = CROSS
            /\ n >= Len(text) /\ SubSeq(resp.result.v, n - Len(text) + 1, n) = text
            /\ Cardinality(CallsOf(log, "summarize")) = 1
            /\ \A c \in CallsOf(log, "summarize") :
                 /\ c > q
                 /\ log[c].val.sql_query = resp.sql_query
                 /\ log[c].val.result = resp.result

\* A run whose three Executor calls failed, the last with a two-line error
\* for another query than the first.
C6_Witness ==
  \E r \in Reqs :
    LET log == req[r].log
    IN /\ req[r].pc = "done"
       /\ Cardinality(FailedQueries(log)) = max_attempts
       /\ log[EventOf(log, "query", "return", max_attempts)].val.val = ErrTwoLines
       /\ log[EventOf(log, "execute", "call", 1)].val # req[r].response.sql_query.v

(* C7: every table name the Table Selector returns, and so every table    *)
(* name passed to the Synthesizer in any attempt, is a member of the       *)
(* fetched table-name set, whatever text the completion service returns.   *)
C7_SelectedAreKnown ==
  \A r \in Reqs :
    LET log == req[r].log
    IN /\ \A i \in ReturnsOf(log, "select") :
            \A n \in 1..Len(log[i].val) : InList(log[i].val[n], available_tables)
       /\ \A j \in CallsOf(log, "synthesize") :
            \A n \in 1..Len(log[j].val.tables) :
              InList(log[j].val.tables[n], available_tables)
       /\ \A n \in 1..Len(req[r].selected) :
            InList(req[r].selected[n], available_tables)

\* The completion named a table that does not exist beside one that does,
\* and the Synthesizer was called with the one that does.
C7_Witness ==
  \E r \in Reqs :
    LET log == req[r].log
    IN /\ \E i \in ReturnsOf(log, "classifier") :
            log[i].val = Reply("payload", <<"Z", COMMA, "B">>)
       /\ \E j \in CallsOf(log, "synthesize") : log[j].val.tables = <<TB>>

(* C8: if the Table Selector returns an empty sequence (no valid name, or  *)
(* the completion call failed), the pipeline ends with NoRelevantTable and *)
(* makes no Synthesizer, Executor or Summarizer call.                      *)
C8_EmptySelectionStops ==
  \A r \in Reqs :
    LET log == req[r].log
    IN \A i \in ReturnsOf(log, "select") :
         log[i].val = <<>> =>
           /\ i = Len(log)
           /\ req[r].pc = "done"
           /\ req[r].response = NoRelevantTable
           /\ \A j \in 1..Len(log) :
                log[j].op \notin {"synthesize", "query_generation", "fetch_schema",
                                  "execute", "query", "summarize", "output"}

\* A run that ended with NoRelevantTable because the completion named only
\* a table that differs in case from a known one.
C8_Witness ==
  \E r \in Reqs :
    LET log == req[r].log
    IN /\ req[r].pc = "done"
       /\ available_tables # <<>>
       /\ \E i \in ReturnsOf(log, "classifier") : log[i].val = Reply("payload", <<"a">>)
       /\ \E i \in ReturnsOf(log, "select") : log[i].val = <<>>

(* C9: once columns(T) has succeeded, a further columns(T) issues no       *)
(* upstream fetch and returns the same columns: the cached columns of T    *)
(* never change, no request issues a new fetch for T, and the columns a    *)
(* request holds for T are the cached ones; over the retry attempts of one *)
(* request and over successive requests of one pipeline.                   *)
C9_ColumnsServedFromCache ==
  [][\A t \in DOMAIN table_schemas :
       /\ t \in DOMAIN table_schemas'
       /\ table_schemas'[t] = table_schemas[t]
       /\ \A r \in Reqs :
            /\ \A i \in CallsOf(req'[r].log, "fetch_schema") :
                 req'[r].log[i].val = t => i <= Len(req[r].log)
            /\ t \in DOMAIN req'[r].schemas =>
                 req'[r].schemas[t] = table_schemas[t]]_vars

\* A request whose Synthesizer got the columns of its tables with no fetch
\* of its own: they were cached by an earlier request.
C9_Witness ==
  \E r \in Reqs :
    /\ req[r].pc = "synth_wait"
    /\ req[r].attempt = 1
    /\ CallsOf(req[r].log, "fetch_schema") = {}
    /\ \A n \in 1..Len(req[r].selected) :
         /\ req[r].selected[n] \in DOMAIN req[r].schemas
         /\ req[r].schemas[req[r].selected[n]] = table_schemas[req[r].selected[n]]

(* C10, as stated: columns(table) for a table that is not in the          *)
(* last-fetched table-name set fails: no upstream column fetch result is   *)
(* returned or cached for such a table.                                    *)
C10_Original ==
  [][\A r \in Reqs :
       LET n == Len(req[r].log)
       IN (/\ req[r].pc = "schema_wait"
           /\ Len(req'[r].log) > n
           /\ req'[r].log[n + 1].op = "fetch_schema"
           /\ req'[r].log[n + 1].ph = "return"
           /\ req'[r].log[n + 1].val.kind = "payload")
          => InList(req[r].selected[req[r].idx], available_tables)]_vars

\* The request r received in this step the reply of an outbound call op.
Received(r, op) ==
  LET n == Len(req[r].log)
  IN /\ Len(req'[r].log) > n
     /\ req'[r].log[n + 1].op = op
     /\ req'[r].log[n + 1].ph = "return"

\* The reply Received(r, op) speaks of.
ReceivedReply(r) == req'[r].log[Len(req[r].log) + 1].val

(* C11: a successful list_tables replaces the cached table-name set        *)
(* wholesale with the upstream list: afterwards the cached set is exactly  *)
(* the fetched list, with no name retained from the previous set.          *)
C11_TablesReplacedWholesale ==
  [][\A r \in Reqs :
       (Received(r, "fetch_tables") /\ ReceivedReply(r).kind = "payload")
         => available_tables' = ReceivedReply(r).val]_vars

\* A request fetched the list [B] after another request had selected A from
\* the list [A, B]: A was in the previous set and is in the cached set no
\* more.
C11_Witness ==
  \E r \in Reqs : \E o \in Reqs \ {r} :
    /\ req[r].pc = "classify_wait"
    /\ \E i \in ReturnsOf(req[r].log, "fetch_tables") :
         req[r].log[i].val = Reply("payload", <<TB>>)
    /\ InList(TA, req[o].selected)
    /\ available_tables = <<TB>>

\* The positions where an outbound call op returned without its payload.
FailedReturns(log, op) == {i \in ReturnsOf(log, op) : log[i].val.kind # "payload"}

(* C12, as stated: if the catalog source is unreachable (the table-list    *)
(* fetch fails, or the column fetch for a selected table fails), the       *)
(* pipeline aborts before any query is attempted: no Executor call is made *)
(* in that run.                                                            *)
C12_Original ==
  \A r \in Reqs :
    LET log == req[r].log
    IN (FailedReturns(log, "fetch_tables") # {} \/ FailedReturns(log, "fetch_schema") # {})
         => CallsOf(log, "execute") \cup CallsOf(log, "query") = {}

\* The positions where the Synthesizer returned a query.
Synthesized(log) == {i \in ReturnsOf(log, "synthesize") : Truthy(log[i].val)}

\* The run ended in failure: anything but an answer without an error.
EndedInFailure(s) ==
  s.pc = "done" /\ (s.response.kind # "answer" \/ s.response.error.some)

(* C13, as stated: a response whose terminal outcome is failure always     *)
(* includes whatever was computed before the failure: the selected tables  *)
(* whenever selection succeeded, and the last attempted query whenever at  *)
(* least one query was synthesized in the run (including when a later      *)
(* attempt fails in synthesis).                                            *)
C13_Original ==
  \A r \in Reqs :
    LET log == req[r].log
    IN EndedInFailure(req[r]) =>
         /\ \A i \in ReturnsOf(log, "select") :
              log[i].val # <<>> => req[r].response.tables = log[i].val
         /\ Synthesized(log) # {} =>
              req[r].response.sql_query = log[Last(Synthesized(log))].val

(* C14: if the completion call of the Summarizer fails (summarize returns  *)
(* None), the pipeline does not fail: the response still delivers the      *)
(* selected tables, the query and the raw executor result, and only the    *)
(* summary is omitted.                                                     *)
C14_SummaryFailureIsNotFatal ==
  \A r \in Reqs :
    LET log == req[r].log
        resp == req[r].response
    IN \A i \in ReturnsOf(log, "summarize") :
         ~Truthy(log[i].val) =>
           /\ req[r].pc = "done"
           /\ resp.kind = "answer"
           /\ resp.tables = log[Last(ReturnsOf(log, "select"))].val
           /\ resp.tables # <<>>
           /\ resp.sql_query = Some(log[Last(CallsOf(log, "execute"))].val)
           /\ resp.result = Some(log[Last(ReturnsOf(log, "execute"))].val)
           /\ resp.summary = None

\* A run whose query returned rows and whose summary completion failed.
C14_Witness ==
  \E r \in Reqs :
    LET log == req[r].log
    IN /\ req[r].pc = "done"
       /\ \E i \in ReturnsOf(log, "output") : log[i].val.kind = "error"
       /\ \E i \in ReturnsOf(log, "summarize") : ~Truthy(log[i].val)
       /\ log[Last(ReturnsOf(log, "query"))].val = Reply("payload", Rows)
       /\ req[r].response.result = Some(<<CHECK, SP, "Results:", NL>> \o Rows)

----------------------------------------------------------------------------
(* The post-processing of the query-generation completion, over every     *)
(* completion text put together from at most MaxParts pieces: a request    *)
(* that waits for the completion receives one of them.                     *)

\* The pieces: a fence, a fence with its language tag, a lone backquote, a
\* line break, a blank, a word.
Pieces == { Fence, Fence \o <<"sql">>, <<BQ>>, <<NL>>, <<SP>>, <<"x">> }

RECURSIVE TextsOf(_)
TextsOf(n) ==
  IF n = 0 THEN { <<>> }
  ELSE LET shorter == TextsOf(n - 1)
       IN shorter \cup { t \o p : t \in shorter, p \in Pieces }

Completions == { Reply("payload", t) : t \in TextsOf(MaxParts) }

\* A request for table B, whose columns are cached, waits for the
\* query-generation completion of its first attempt.
AwaitingCompletion ==
  LET q == CHOOSE q \in Questions : TRUE
      asked == AskClassifier(Logged([IdleReq EXCEPT !.question = q],
                                    Call("select", 0, q)),
                             <<TB>>)
      reply == Reply("payload", <<"Z", COMMA, "B">>)
      valid == ValidTables(ChatCompletion(reply), <<TB>>)
      selected == Logged(Logged(asked, Return("classifier", 0, reply)),
                         Return("select", 0, valid))
  IN EnterRetryController([selected EXCEPT !.selected = valid], TB :> ColsV1)

InitCompletion ==
  /\ started = TRUE
  /\ available_tables = <<TB>>
  /\ table_schemas = TB :> ColsV1
  /\ req = [r \in Reqs |-> IF r = 1 THEN AwaitingCompletion ELSE IdleReq]

\* The completion returns with any of the texts.
CompletionReturn(r) ==
  /\ SynthesizerReturnWith(r, Completions)

NextCompletion == \E r \in Reqs : CompletionReturn(r)

SpecCompletion == InitCompletion /\ [][NextCompletion]_vars

(* C15: for every completion text, the cleaned query string produced by    *)
(* the post-processing of the Synthesizer contains no code-fence marker    *)
(* and no line break, and has no leading or trailing whitespace.           *)
C15_CleanedQueryIsOneBareLine ==
  \A r \in Reqs :
    LET log == req[r].log
    IN \A i \in ReturnsOf(log, "synthesize") :
         (log[i - 1].op = "query_generation" /\ log[i].val.some) =>
           LET q == log[i].val.v
           IN /\ \A k \in 1..Len(q) : ~MatchAt(q, Fence, k)
              /\ \A k \in 1..Len(q) : q[k] # NL
              /\ q # <<>> => (q[1] # SP /\ q[Len(q)] # SP)

\* A completion of two lines inside a fence was cleaned to one line.
C15_Witness ==
  \E r \in Reqs :
    LET log == req[r].log
    IN \E i \in ReturnsOf(log, "synthesize") :
         /\ log[i - 1].val = Reply("payload", Fence \o <<"sql", NL, "x", NL, "x">> \o Fence)
         /\ log[i].val = Some(<<"x", SP, "x">>)

\* The positions where op raised.
RaisesOf(log, op) == {i \in 1..Len(log) : log[i].op = op /\ log[i].ph = "raise"}

\* Every Synthesizer outcome is a non-empty query, handed to the Executor
\* as it is, or a failure that ends the run as SynthesisFailed; a completion
\* that failed or had no text gives the failure.
SynthesisOutcomes(s) ==
  LET log == s.log
  IN /\ \A i \in ReturnsOf(log, "synthesize") :
          IF Truthy(log[i].val)
          THEN /\ Len(log) > i
               /\ log[i + 1] = Call("execute", log[i].attempt, log[i].val.v)
          ELSE /\ i = Len(log)
               /\ s.pc = "done"
               /\ s.response = FailedToExecute(GenerateError)
     /\ \A j \in CallsOf(log, "execute") \cup CallsOf(log, "query") : log[j].val # <<>>
     /\ \A i \in ReturnsOf(log, "query_generation") :
          (log[i].val.kind # "payload" \/ Strip(log[i].val.val) = <<>>)
            => ~Truthy(log[i + 1].val)

(* C16, as stated: synthesize yields either one non-empty query string or  *)
(* SynthesisFailed: when the completion service fails or returns empty     *)
(* text, or the response cannot be cleaned into a query, the outcome is    *)
(* SynthesisFailed and never an empty query passed on to the Executor, and *)
(* no exception escapes the Synthesizer.                                   *)
C16_Original ==
  \A r \in Reqs :
    /\ SynthesisOutcomes(req[r])
    /\ RaisesOf(req[r].log, "synthesize") = {}

(* C17: each execute(query) issues exactly one request to the data         *)
(* endpoint, carrying the query text it was given unchanged, and performs  *)
(* no retry of its own: a second request in the same run happens only      *)
(* through a new attempt of the Retry Controller.                          *)
C17_OneRequestPerExecute ==
  \A r \in Reqs :
    LET log == req[r].log
    IN /\ \A i \in CallsOf(log, "execute") :
            /\ Len(log) > i
            /\ log[i + 1] = Call("query", log[i].attempt, log[i].val)
            /\ Len(log) > i + 1 =>
                 /\ log[i + 2].op = "query" /\ log[i + 2].ph = "return"
                 /\ Len(log) > i + 2
                 /\ log[i + 3].op = "execute" /\ log[i + 3].ph = "return"
       /\ \A j \in CallsOf(log, "query") :
            /\ j > 1
            /\ log[j - 1].op = "execute" /\ log[j - 1].ph = "call"
            /\ \A k \in CallsOf(log, "query") : k # j => log[k].attempt # log[j].attempt
            /\ \A k \in CallsOf(log, "query") :
                 k < j => \E c \in CallsOf(log, "synthesize") :
                            k < c /\ c < j /\ log[c].attempt = log[j].attempt

\* A run whose first request failed in transport and whose second request,
\* of the next attempt, carried another query.
C17_Witness ==
  \E r \in Reqs :
    LET log == req[r].log
    IN \E j \in CallsOf(log, "query") : \E k \in CallsOf(log, "query") :
         /\ log[j].attempt = 1 /\ log[k].attempt = 2
         /\ log[j + 1].val = Reply("exception", FaultText)
         /\ log[j].val # log[k].val
         /\ log[k].val = <<"SELECT", SP, "2">>

\* The positions where GET /query ended in a timeout or a transport fault.
Faults(log) == {i \in ReturnsOf(log, "query") : log[i].val.kind = "exception"}

\* The error text the Executor reports for a fault.
RequestFailed(text) == <<"Request", SP, "failed:", SP>> \o text

(* C18: a timeout or transport fault of the outbound call of the Executor  *)
(* is reported as a failure outcome of that attempt and feeds the Retry    *)
(* Controller as a store rejection does: it consumes one attempt and, if   *)
(* attempt < max_attempts, starts a new attempt whose prior error is the   *)
(* text of the fault (as the Executor reports it, after "Request failed:").*)
C18_FaultFeedsRetry ==
  \A r \in Reqs :
    LET log == req[r].log
    IN /\ \A i \in Faults(log) :
            LET k == log[i].attempt
            IN /\ Len(log) > i
               /\ log[i + 1].op = "execute" /\ log[i + 1].ph = "return"
               /\ log[i + 1].val = <<CROSS, SP>> \o RequestFailed(log[i].val.val)
               /\ Len(log) > i + 1
               /\ IF k < max_attempts
                  THEN log[i + 2] =
                         Call("synthesize", k + 1,
                              [tables |-> req[r].selected,
                               question |-> WithPriorError(req[r].question,
                                                           RequestFailed(log[i].val.val))])
                  ELSE /\ log[i + 2].op = "summarize"
                       /\ req[r].error
                            = ExhaustedError(max_attempts, RequestFailed(log[i].val.val))
       /\ \A i \in FailedQueries(log) :
            /\ log[i + 2].attempt = IF log[i].attempt < max_attempts
                                    THEN log[i].attempt + 1 ELSE log[i].attempt
            /\ log[i + 2].op = IF log[i].attempt < max_attempts
                               THEN "synthesize" ELSE "summarize"

\* A run whose first Executor call timed out and whose second attempt was
\* given the fault as prior error and got rows.
C18_Witness ==
  \E r \in Reqs :
    LET log == req[r].log
    IN /\ \E i \in Faults(log) : log[i].attempt = 1 /\ log[i].val.val = FaultText
       /\ \E c \in CallsOf(log, "query_generation") :
            /\ log[c].attempt = 2
            /\ log[c].val.question
                 = WithPriorError(req[r].question, RequestFailed(FaultText))
       /\ \E j \in ReturnsOf(log, "query") :
            log[j].attempt = 2 /\ log[j].val.kind = "payload"

----------------------------------------------------------------------------
(* Requests served one at a time, with outbound calls that eventually      *)
(* return a value or a failure (aiohttp gives every call a total timeout). *)
(* The replies are those of Spec, kept to one of every kind of outcome of  *)
(* every call.                                                             *)

OutcomeReplies(op) ==
  CASE op = "fetch_tables" ->
         { Reply("payload", <<TA, TB>>), Reply("error", <<"db", SP, "down">>) }
    [] op = "classifier" ->
         { Reply("payload", <<"B", COMMA, SP, "A", NL>>), Reply("payload", <<"a">>),
           Reply("error", <<"model", SP, "not", SP, "found">>) }
    [] op = "fetch_schema" ->
         { Reply("payload", ColsV1), Reply("payload", ColsDict),
           Reply("exception", <<"timeout">>) }
    [] op = "query_generation" ->
         { Reply("payload", RawPlain), Reply("payload", RawEmptyFence),
           Reply("exception", <<"timeout">>) }
    [] op = "query" ->
         { Reply("payload", Rows), Reply("error", ErrOneLine),
           Reply("exception", FaultText) }
    [] op = "output" ->
         { Reply("payload", <<"one", SP, "row", NL>>), Reply("error", <<"busy">>) }

\* Every reply logged is one of OutcomeReplies.
OutcomeScope ==
  \A r \in Reqs :
    \A i \in 1..Len(req[r].log) :
      LET e == req[r].log[i]
      IN (e.ph = "return" /\ e.op \in Outbound) => e.val \in OutcomeReplies(e.op)

\* Some outbound call of request r returns.
Returns(r) ==
  \/ FetchTablesReturn(r) /\ OutcomeScope'
  \/ ClassifierReturn(r) /\ OutcomeScope'
  \/ FetchSchemaReturn(r) /\ OutcomeScope'
  \/ SynthesizerReturn(r) /\ OutcomeScope'
  \/ ExecutorReturn(r) /\ OutcomeScope'
  \/ SummarizerReturn(r) /\ OutcomeScope'

NextFair ==
  \/ OnStartup /\ available_tables' \in {<<>>, <<TA, TB>>}
  \/ \E r \in Reqs :
       \/ StartAlone(r)
       \/ Returns(r)
       \/ Done(r)

SpecFair ==
  Init /\ [][NextFair]_vars /\ \A r \in Reqs : WF_vars(Returns(r))

(* C19: every request runs to completion: if each outbound call eventually *)
(* returns a value or a failure, the pipeline eventually reaches a         *)
(* terminal response (success, exhausted retries, or a hard upstream       *)
(* failure), for every combination of collaborator outcomes.               *)
C19_RunsToCompletion ==
  \A r \in Reqs :
    (req[r].pc # "idle") ~> (req[r].pc = "done" /\ req[r].response.kind # "none")

\* A run that reached its terminal response after max_attempts failed
\* Executor calls and a failed summary.
C19_Witness ==
  \E r \in Reqs :
    /\ req[r].pc = "done"
    /\ req[r].response.kind = "answer"
    /\ Cardinality(FailedQueries(req[r].log)) = max_attempts
    /\ req[r].response.summary = None

(* C20, as stated: each stage reports its own failure kind: a run in which *)
(* the table-list fetch fails does not end with the NoRelevantTable        *)
(* outcome, and a run in which a column fetch fails does not end with the  *)
(* SynthesisFailed outcome; catalog failures are distinguishable from both *)
(* in the terminal response.                                               *)
C20_Original ==
  \A r \in Reqs :
    LET log == req[r].log
    IN req[r].pc = "done" =>
         /\ FailedReturns(log, "fetch_tables") # {}
              => req[r].response # NoRelevantTable
         /\ FailedReturns(log, "fetch_schema") # {}
              => req[r].response # FailedToExecute(GenerateError)

\* The column list the upstream source of SpecConcurrent has for a table.
UpstreamColumns(t) ==
  CHOOSE c \in {x.val : x \in {y \in ConcurrentReplies("fetch_schema") :
                                  y.kind = "payload"}} : TRUE

\* The positions where request s received the columns of table t.
FetchedBy(s, t) ==
  {i \in ReturnsOf(s.log, "fetch_schema") :
     s.log[i].val.kind = "payload" /\ s.log[i - 1].val = t}

(* C21: concurrent requests that both need the columns of the same         *)
(* uncached table T may both fetch it, and the race is benign: in every    *)
(* interleaving the cache entry for T, once present, equals the upstream   *)
(* column list for T, no request reads a missing or partial entry after    *)
(* its own fetch succeeded, and the Synthesizer of each request sees that  *)
(* same list.                                                              *)
C21_RacingFetchesAreBenign ==
  /\ \A t \in DOMAIN table_schemas : table_schemas[t] = UpstreamColumns(t)
  /\ \A r \in Reqs :
       LET log == req[r].log
       IN /\ \A t \in DOMAIN req[r].schemas : req[r].schemas[t] = UpstreamColumns(t)
          /\ \A t \in Range(req[r].selected) :
               FetchedBy(req[r], t) # {} =>
                 /\ t \in DOMAIN table_schemas
                 /\ t \in DOMAIN req[r].schemas
          /\ \A c \in CallsOf(log, "query_generation") :
               log[c].val.schemas
                 = SchemaStr(req[r].selected,
                             [t \in Range(req[r].selected) |-> UpstreamColumns(t)])

\* Two requests each fetched the columns of B, the second after the first
\* had cached them, and both asked the Synthesizer with the same columns.
C21_Witness ==
  \E r \in Reqs : \E o \in Reqs \ {r} :
    /\ FetchedBy(req[r], TB) # {} /\ FetchedBy(req[o], TB) # {}
    /\ \E c \in CallsOf(req[r].log, "query_generation") :
         \E d \in CallsOf(req[o].log, "query_generation") :
           req[r].log[c].val.schemas = req[o].log[d].val.schemas

\* The error text the Retry Controller took from the failed attempt k.
ErrorOfAttempt(log, k) == ErrorMessage(log[EventOf(log, "execute", "return", k)].val)

\* The retry state and the terminal outcome of a request, read from the
\* outcomes of its own calls: the attempt is the number of its Synthesizer
\* calls, the prior error is that of its own previous attempt, and it ends
\* exhausted exactly when max_attempts of its own Executor calls failed.
OwnRetryState(s) ==
  LET log == s.log
      k == Cardinality(CallsOf(log, "synthesize"))
  IN /\ s.attempt = k
     /\ s.previous_error = IF k <= 1 THEN None ELSE Some(ErrorOfAttempt(log, k - 1))
     /\ k >= 1 =>
          log[EventOf(log, "synthesize", "call", k)].val.question
            = IF k = 1 THEN s.question
              ELSE WithPriorError(s.question, ErrorOfAttempt(log, k - 1))
     /\ s.pc = "done" =>
          /\ s.response.error.some /\ s.response.kind = "answer"
               <=> Cardinality(FailedQueries(log)) = max_attempts
          /\ (s.response.kind = "answer" /\ ~s.response.error.some)
               <=> (\E i \in ReturnsOf(log, "query") : log[i].val.kind = "payload")

\* The table list a request fetched itself, if it did.
OwnTables(log) ==
  LET i == Last(ReturnsOf(log, "fetch_tables"))
  IN IF log[i].val.kind = "payload" THEN log[i].val.val ELSE <<>>

OthersUntouched ==
  \A o \in Reqs :
    /\ req'[o] # req[o] => \A r \in Reqs \ {o} : req'[r] = req[r]
    /\ (\E op \in Outbound : Received(o, op) /\ ReceivedReply(o).kind # "payload")
         => available_tables' = available_tables /\ table_schemas' = table_schemas
    /\ Received(o, "classifier") =>
         req'[o].log[Len(req[o].log) + 2]
           = Return("select", 0, ValidTables(ChatCompletion(ReceivedReply(o)),
                                             available_tables))

First(positions) == CHOOSE i \in positions : \A j \in positions : i <= j

(* C23: every request enters the Retry Controller with attempt = 1 and no  *)
(* prior error: the first Synthesizer call of a request carries the        *)
(* question with no error context, also when an earlier request on the     *)
(* same pipeline ended in failure.                                         *)
C23_EntersWithFirstAttempt ==
  \A r \in Reqs :
    LET log == req[r].log
        calls == CallsOf(log, "synthesize")
    IN calls # {} =>
         /\ log[First(calls)] = Call("synthesize", 1,
                                     [tables |-> req[r].selected,
                                      question |-> req[r].question])
         /\ log[First(calls) - 1].op = "select"
         /\ \A g \in CallsOf(log, "query_generation") :
              log[g].attempt = 1 => log[g].val.question = req[r].question
         /\ req[r].attempt = 1 => req[r].previous_error = None

\* A request that started when the table list was cached made its first
\* Synthesizer call while another request, which had started before the
\* list was cached, had ended after max_attempts failures.
C23_Witness ==
  \E r \in Reqs : \E o \in Reqs \ {r} :
    /\ req[o].pc = "done"
    /\ CallsOf(req[o].log, "fetch_tables") # {}
    /\ Cardinality(FailedQueries(req[o].log)) = max_attempts
    /\ req[o].response.error.some
    /\ CallsOf(req[r].log, "fetch_tables") = {}
    /\ req[r].pc = "synth_wait"
    /\ req[r].attempt = 1

----------------------------------------------------------------------------
\* The run ended in the Synthesizer: its last call gave no query (it
\* returned None or an empty string, or it raised).
EndedInSynthesizer(s) ==
  /\ s.pc = "done"
  /\ CallsOf(s.log, "synthesize") # {}
  /\ \A i \in Synthesized(s.log) : i < Last(CallsOf(s.log, "synthesize"))

(* C24: in every state of a run the number of Synthesizer calls is at most *)
(* max_attempts and exceeds the number of Executor calls by at most one;   *)
(* at termination the two counts are equal unless the run ended on a       *)
(* synthesis failure, and then the Synthesizer count is exactly one        *)
(* higher.                                                                 *)
C24_CallCounts ==
  \A r \in Reqs :
    LET synthesizer == Cardinality(CallsOf(req[r].log, "synthesize"))
        executor == Cardinality(CallsOf(req[r].log, "execute"))
    IN /\ synthesizer <= max_attempts
       /\ executor <= synthesizer
       /\ synthesizer <= executor + 1
       /\ req[r].pc = "done" =>
            IF EndedInSynthesizer(req[r])
            THEN synthesizer = executor + 1
            ELSE synthesizer = executor

\* A run that ended on a synthesis failure in its last attempt, after
\* max_attempts - 1 executions, and a run with max_attempts of each.
C24_Witness ==
  \E r \in Reqs :
    /\ EndedInSynthesizer(req[r])
    /\ Cardinality(CallsOf(req[r].log, "synthesize")) = max_attempts
    /\ Cardinality(CallsOf(req[r].log, "execute")) = max_attempts - 1

----------------------------------------------------------------------------
\* At position c of the log the Retry Controller has reached a terminal
\* state: its last Executor call has returned, with a result or in the
\* last attempt, and it makes no call from c on.
ControllerTerminalAt(log, c) ==
  /\ \A i \in CallsOf(log, "synthesize") \cup CallsOf(log, "execute") : i < c
  /\ \E e \in ReturnsOf(log, "execute") :
       /\ e < c
       /\ \A i \in CallsOf(log, "synthesize") \cup CallsOf(log, "execute") : i < e
       /\ ~IsFailure(log[e].val) \/ log[e].attempt = max_attempts

(* C25: the stages run in the documented order in every run: the Table     *)
(* Selector completes before the first Synthesizer call; every Executor    *)
(* call is immediately preceded by a successful Synthesizer call of the    *)
(* same attempt whose output is the executed query; the Summarizer is      *)
(* called at most once and only after the Retry Controller has reached a   *)
(* terminal state.                                                         *)
C25_StagesInOrder ==
  \A r \in Reqs :
    LET log == req[r].log
    IN /\ \A i \in CallsOf(log, "synthesize") :
            \E j \in ReturnsOf(log, "select") : j < i /\ log[j].val # <<>>
       /\ \A i \in CallsOf(log, "execute") :
            /\ i > 1
            /\ log[i - 1].op = "synthesize" /\ log[i - 1].ph = "return"
            /\ log[i - 1].attempt = log[i].attempt
            /\ Truthy(log[i - 1].val)
            /\ log[i - 1].val.v = log[i].val
       /\ Cardinality(CallsOf(log, "summarize")) <= 1
       /\ \A c \in CallsOf(log, "summarize") : ControllerTerminalAt(log, c)

\* A run that went through every stage, with a retry: selection, a failed
\* and a successful execution, and the summary.
C25_Witness ==
  \E r \in Reqs :
    /\ req[r].pc = "done"
    /\ ReturnsOf(req[r].log, "summarize") # {}
    /\ Cardinality(CallsOf(req[r].log, "execute")) = 2
    /\ Cardinality(FailedQueries(req[r].log)) = 1

----------------------------------------------------------------------------
\* The names a completion lists: its comma-separated parts, each trimmed.
NamesOf(reply) ==
  IF reply.kind = "payload" /\ Strip(reply.val) # <<>>
  THEN StripAll(Split(Strip(reply.val), COMMA))
  ELSE <<>>

\* The k-th (in increasing order) of a set of positions.
Nth(positions, k) ==
  CHOOSE i \in positions : Cardinality({j \in positions : j <= i}) = k

(* C26: select returns exactly, and in the order named, the comma-         *)
(* separated names of the completion (trimmed) that are equal, letter case *)
(* included, to a member of the last-fetched table list: every matching    *)
(* name is kept and a name that differs from a table name only in letter   *)
(* case is dropped.                                                        *)
C26_SelectionIsExactMatches ==
  \A r \in Reqs :
    LET log == req[r].log
    IN \A i \in ReturnsOf(log, "select") :
         LET names == NamesOf(log[i - 1].val)
             kept == {k \in 1..Len(names) : InList(names[k], available_tables)}
             selected == log[i].val
         IN /\ log[i - 1].op = "classifier" /\ log[i - 1].ph = "return"
            /\ Len(selected) = Cardinality(kept)
            /\ \A n \in 1..Len(selected) : selected[n] = names[Nth(kept, n)]
            /\ \A k \in 1..Len(names) :
                 (~InList(names[k], available_tables)
                    /\ \E a \in Range(available_tables) : Lower(a) = Lower(names[k]))
                   => ~InList(names[k], selected)

\* The completion named table A in lower case and then exactly, with both
\* tables known: the exact name alone was returned.
C26_Witness ==
  \E r \in Reqs :
    \E i \in ReturnsOf(req[r].log, "select") :
      /\ req[r].log[i - 1].val = Reply("payload", <<"a", COMMA, SP, "A">>)
      /\ req[r].log[i].val = <<TA>>
      /\ available_tables = <<TA, TB>>

----------------------------------------------------------------------------
\* The response carries the note "Query succeeded after retries. Original
\* error: ...": the final f-string of pipe with a truthy error.
HasRetryNote(s) ==
  s.pc = "done" /\ s.response.kind = "answer" /\ s.response.error.some

\* The final Executor outcome of the run is success.
FinalOutcomeSuccess(log) ==
  /\ ReturnsOf(log, "query") # {}
  /\ Last(ReturnsOf(log, "query")) \notin FailedQueries(log)

(* C27, as stated: if earlier attempts failed but the query eventually     *)
(* succeeded, the response includes the retry note naming the original     *)
(* error; the note "Query succeeded after retries" appears in a response   *)
(* only when the final Executor outcome of the run is success.             *)
C27_Original ==
  \A r \in Reqs :
    /\ (/\ req[r].pc = "done"
        /\ FailedQueries(req[r].log) # {}
        /\ FinalOutcomeSuccess(req[r].log))
         => HasRetryNote(req[r])
    /\ HasRetryNote(req[r]) => FinalOutcomeSuccess(req[r].log)

----------------------------------------------------------------------------
(* The Data Access Service (access_api.py).  A handler runs against a      *)
(* database that fails at one point of the handler or at none; its outcome *)
(* is the JSON object it returns (a function from keys to values) or the   *)
(* exception that leaves it.                                               *)

\* Where the database fails during one request.
DbFaults == {"none", "connect", "cursor", "fetch", "column", "close"}

\* str(e) of the exception raised at a point of failure.
DbError(fault) == <<"HY000", SP, fault>>

\* The catalog of the database and the rows cursor.columns gives.
DbTables == <<TA, TB>>
DbColumns(table_name) ==
  IF InList(table_name, DbTables)
  THEN << [column_name |-> "item_id", type_name |-> "VARCHAR"] >>
  ELSE <<>>

\* The database executes SELECT statements and rejects any other text.
DbRejects(q) == q = <<>> \/ Head(q) # "SELECT"

Returned(body) == [raised |-> None, body |-> body]
Raised(text) == [raised |-> Some(text), body |-> EmptyMap]

\* Mutant of Catch: the exception is logged and raised again.
Catch_Reraise(outcome) == outcome

\* try: ... except Exception as e: return {"error": str(e)}
Catch(outcome) ==
  IF outcome.raised.some THEN Returned("error" :> outcome.raised.v) ELSE outcome

\* GET /tables
get_tables(fault) ==
  Catch(IF fault \in {"connect", "cursor", "fetch", "close"}
        THEN Raised(DbError(fault))
        ELSE Returned("tables" :> DbTables))

\* GET /query?q=...
run_query(q, fault) ==
  Catch(IF fault \in {"connect", "fetch", "close"} THEN Raised(DbError(fault))
        ELSE IF fault = "cursor" \/ DbRejects(q) THEN Raised(<<"42000">> \o q)
        ELSE Returned("result" :> Rows))

\* GET /columns/{table_name}: a column whose attributes cannot be read is
\* left out (the inner try); any other failure is caught by the outer one.
get_columns(table_name, fault) ==
  Catch(IF fault \in {"connect", "cursor", "fetch", "close"}
        THEN Raised(DbError(fault))
        ELSE LET rows == DbColumns(table_name)
                 read == IF fault = "column" /\ rows # <<>> THEN Tail(rows) ELSE rows
             IN Returned("columns" :>
                           [i \in 1..Len(read) |->
                              Column("dict", read[i].column_name, read[i].type_name)]))

\* A GET request: the first segment of its path and the rest (the table
\* name of the path, or the parameter q).
Get(route, arg) == [route |-> route, arg |-> arg]

\* A path no route of the application matches: 404 with a JSON body.
NotFound == Returned("detail" :> <<"Not", SP, "Found">>)

\* The routes of the application.
Serve(request, fault) ==
  CASE request.route = "tables" -> get_tables(fault)
    [] request.route = "query" -> run_query(request.arg, fault)
    [] request.route = "columns" -> get_columns(request.arg, fault)
    [] OTHER -> NotFound

\* Query texts sent to the service
QueryTexts ==
  { <<"SELECT", SP, "1">>, <<"SELECT", SP, "3">>, <<"DROP", SP, "TABLE", SP, "A">>,
    <<"x">>, <<>> }

\* The tables, columns and query requests
ServiceRequests ==
  {Get("tables", <<>>)}
    \cup {Get("columns", t) : t \in {TA, TB, <<"Z">>}}
    \cup {Get("query", q) : q \in QueryTexts}

\* The service on its own: each slot holds one request, which the service
\* answers under some behaviour of the database.
InitService ==
  /\ started = TRUE
  /\ available_tables = <<>>
  /\ table_schemas = EmptyMap
  /\ req \in [Reqs -> { Logged([IdleReq EXCEPT !.pc = "service_wait"],
                               Call(q.route, 0, q.arg)) : q \in ServiceRequests }]

\* The connection of a handler when the handler returns: pyodbc.connect is
\* the first statement of the try and conn.close() the last before the
\* return of the payload; the except branch returns with no close.
ConnectionAfter(request, fault) ==
  LET raised == \/ fault \in {"cursor", "fetch", "close"}
                \/ request.route = "query" /\ DbRejects(request.arg)
  IN [opened |-> fault # "connect",
      closed |-> fault # "connect" /\ ~raised]

\* The service answers the request of slot r; the state of the connection
\* it used is recorded after the answer.
ServiceAnswer(r) ==
  /\ req[r].pc = "service_wait"
  /\ \E fault \in DbFaults :
       req' = [req EXCEPT ![r] =
                 Logged(Logged([@ EXCEPT !.pc = "served"],
                               Return(@.log[1].op, 0,
                                      Serve(Get(@.log[1].op, @.log[1].val), fault))),
                        Return("connection", 0,
                               ConnectionAfter(Get(@.log[1].op, @.log[1].val), fault)))]
  /\ UNCHANGED <<started, available_tables, table_schemas>>

NextService == \E r \in Reqs : ServiceAnswer(r)

SpecService == InitService /\ [][NextService]_vars

\* The key of the payload of each operation.
PayloadKey(op) ==
  CASE op = "tables" -> "tables" [] op = "columns" -> "columns" [] op = "query" -> "result"

(* C29: the Data Access Service answers every tables, columns and query    *)
(* request, for arbitrary query text and any database fault, with a        *)
(* structured response that carries either the payload key of the          *)
(* operation or an error string, never both, and never with an unhandled   *)
(* exception.                                                              *)
C29_ServiceAlwaysAnswers ==
  \A r \in Reqs :
    LET log == req[r].log
    IN \A i \in 1..Len(log) :
         (log[i].ph = "return" /\ log[i].op \in {"tables", "columns", "query"}) =>
           LET outcome == log[i].val
           IN /\ ~outcome.raised.some
              /\ (PayloadKey(log[i].op) \in DOMAIN outcome.body)
                   # ("error" \in DOMAIN outcome.body)
              /\ DOMAIN outcome.body \subseteq {PayloadKey(log[i].op), "error"}

\* A query the database rejects was answered with an error, while a
\* columns request that found the database unreachable was answered with
\* an error too.
C29_Witness ==
  \E r, o \in Reqs :
    /\ req[r].pc = "served" /\ req[o].pc = "served"
    /\ req[r].log[1] = Call("query", 0, <<"DROP", SP, "TABLE", SP, "A">>)
    /\ DOMAIN req[r].log[2].val.body = {"error"}
    /\ req[o].log[1] = Call("columns", 0, TA)
    /\ req[o].log[2].val = Returned("error" :> DbError("connect"))

----------------------------------------------------------------------------
(* The pipeline composed with the Data Access Service: the replies to its  *)
(* table and column fetches are the service's answers to the requests the  *)
(* pipeline sends.                                                         *)

\* What the pipeline makes of an answer: resp.json() raises on the body of
\* an internal server error; else the payload is data[key] if the key is
\* there, and the error is data.get("error", "Unknown error") if not.
ClientSees(outcome, key) ==
  IF outcome.raised.some THEN Reply("exception", <<"ContentTypeError">>)
  ELSE IF key \in DOMAIN outcome.body THEN Reply("payload", outcome.body[key])
  ELSE IF "error" \in DOMAIN outcome.body THEN Reply("error", outcome.body["error"])
  ELSE Reply("error", <<"Unknown", SP, "error">>)

\* fetch_tables sends GET {access_api_url}/tables.
ServedTables ==
  { ClientSees(Serve(Get("tables", <<>>), fault), "tables") : fault \in DbFaults }

\* fetch_schema sends GET {access_api_url}/schema/{table_name}.
ServedSchema(table_name) ==
  { ClientSees(Serve(Get("schema", table_name), fault), "columns") :
      fault \in DbFaults }

FetchSchemaServed(r) ==
  FetchSchemaReturnWith(r, ServedSchema(req[r].selected[req[r].idx]))

\* The steps of Next that the composition can take, with the replies of the
\* service.  No column fetch succeeds (C28), so a request never comes to
\* wait for the Synthesizer's completion and what follows it.
NextComposed ==
  \/ OnStartupWith(ServedTables)
  \/ \E r \in Reqs :
       \/ Start(r)
       \/ FetchTablesReturnWith(r, ServedTables)
       \/ ClassifierReturn(r)
       \/ FetchSchemaServed(r)
       \/ Done(r)

SpecComposed == Init /\ [][NextComposed]_vars

(* C28, as stated: composed with the repository's Data Access Service, the *)
(* pipeline's column fetch for a table in the catalog addresses the        *)
(* service's columns operation and reads each returned column's name and   *)
(* type name: for a table the service knows, the fetch succeeds, the       *)
(* columns are cached, and synthesis reaches its completion call with      *)
(* those names and types.                                                  *)
C28_Original ==
  \A r \in Reqs :
    LET log == req[r].log
    IN \A i \in ReturnsOf(log, "fetch_schema") :
         LET table_name == log[i - 1].val
             columns == get_columns(table_name, "none").body["columns"]
         IN InList(table_name, DbTables) =>
              /\ log[i].val.kind = "payload"
              /\ table_name \in DOMAIN table_schemas
              /\ Len(table_schemas[table_name]) = Len(columns)
              /\ \A c \in 1..Len(columns) :
                   /\ table_schemas[table_name][c].name = columns[c].name
                   /\ table_schemas[table_name][c].type = columns[c].type
              /\ req[r].response.kind \notin {"Failed to execute query", "Error"}

----------------------------------------------------------------------------
(* The classification of the Executor's result, over every response of the *)
(* data endpoint whose rows or error text are put together from at most    *)
(* MaxText pieces, the marks of success and failure among them.            *)

RECURSIVE ResponseTexts(_)
ResponseTexts(n) ==
  IF n = 0 THEN { <<>> }
  ELSE LET shorter == ResponseTexts(n - 1)
       IN shorter \cup { t \o <<p>> : t \in shorter, p \in {CROSS, CHECK, NL, "x"} }

ExecutionReplies ==
  { Reply(kind, t) : kind \in {"payload", "error", "exception"},
                     t \in ResponseTexts(MaxText) }

\* The completion of each attempt gives the same query.
QueryCompletion(r) == SynthesizerReturnWith(r, {Reply("payload", RawPlain)})

\* GET /query returns with any of the responses.
ExecutionReturn(r) == ExecutorReturnWith(r, ExecutionReplies)

NextExecution ==
  \E r \in Reqs :
    \/ QueryCompletion(r)
    \/ ExecutionReturn(r)

\* From a request that waits for the completion of its first attempt.
SpecExecution == InitCompletion /\ [][NextExecution]_vars

(* C30: the Retry Controller's classification of an attempt agrees with    *)
(* the Executor's: an attempt is treated as failed (and retried or         *)
(* exhausted) if and only if the data endpoint's response carried no       *)
(* result, whatever the contents of the returned rows or of the error      *)
(* text.                                                                   *)
C30_ClassificationAgrees ==
  \A r \in Reqs :
    LET log == req[r].log
    IN \A i \in ReturnsOf(log, "query") :
         LET k == log[i].attempt
             last == \A j \in ReturnsOf(log, "query") : j <= i
         IN /\ Len(log) >= i + 2
            /\ IF log[i].val.kind # "payload"
               THEN IF k < max_attempts
                    THEN /\ log[i + 2].op = "synthesize" /\ log[i + 2].ph = "call"
                         /\ log[i + 2].attempt = k + 1
                         /\ req[r].previous_error.some \/ ~last
                    ELSE /\ log[i + 2].op = "summarize"
                         /\ req[r].error.some
                         /\ req[r].error.n = max_attempts
               ELSE /\ log[i + 2].op = "summarize"
                    /\ last
                    /\ ~req[r].error.some

\* Rows that are the mark of failure were taken as a success, after an
\* error whose text is the mark of success was retried.
C30_Witness ==
  \E r \in Reqs :
    /\ req[r].pc = "summ_wait"
    /\ ~req[r].error.some
    /\ \E i, j \in ReturnsOf(req[r].log, "query") :
         /\ req[r].log[i].val = Reply("error", <<CHECK>>)
         /\ req[r].log[j].val = Reply("payload", <<CROSS>>)

----------------------------------------------------------------------------
(* The catalog fetches, with a column reply whose payload is no list among *)
(* the replies.  Requests are served one at a time; the replies of the     *)
(* other calls are kept to the ones below.                                 *)

CatalogReplies(op) ==
  CASE op = "fetch_tables" ->
         { Reply("payload", <<TA, TB>>), Reply("error", <<"db", SP, "down">>) }
    [] op = "classifier" ->
         { Reply("payload", <<"B", COMMA, SP, "A", NL>>),
           Reply("payload", <<"Z", COMMA, "B">>) }
    [] op = "fetch_schema" ->
         { Reply("payload", ColsV1), Reply("exception", <<"timeout">>),
           Reply("unsized", NullColumns) }
    [] op = "query_generation" ->
         { Reply("payload", RawPlain) }
    [] op = "query" ->
         { Reply("payload", Rows), Reply("error", ErrOneLine) }
    [] op = "output" ->
         { Reply("payload", <<"one", SP, "row", NL>>) }

\* Every reply logged is one of CatalogReplies.
CatalogScope ==
  \A r \in Reqs :
    \A i \in 1..Len(req[r].log) :
      LET e == req[r].log[i]
      IN (e.ph = "return" /\ e.op \in Outbound) => e.val \in CatalogReplies(e.op)

NextCatalog ==
  \/ OnStartupWith(CatalogReplies("fetch_tables"))
  \/ \E r \in Reqs :
       \/ StartAlone(r)
       \/ FetchTablesReturnWith(r, CatalogReplies("fetch_tables"))
       \/ ClassifierReturn(r) /\ CatalogScope'
       \/ FetchSchemaReturnWith(r, CatalogReplies("fetch_schema"))
       \/ SynthesizerReturnWith(r, CatalogReplies("query_generation"))
       \/ ExecutorReturnWith(r, CatalogReplies("query"))
       \/ SummarizerReturn(r) /\ CatalogScope'
       \/ Done(r)

SpecCatalog == Init /\ [][NextCatalog]_vars

(* C31, as stated: a failed catalog fetch changes no cached state: a       *)
(* failed table-list fetch leaves the cached table-name set as it was, and *)
(* a failed column fetch for T inserts no entry for T and leaves all other *)
(* schema-cache entries unchanged, so the failure is not cached and a      *)
(* later request fetches T again.                                          *)
C31_Original ==
  [][\A r \in Reqs :
       /\ (Received(r, "fetch_tables") /\ ReceivedReply(r).kind # "payload")
            => available_tables' = available_tables
       /\ (Received(r, "fetch_schema") /\ ReceivedReply(r).kind # "payload")
            => /\ table_schemas' = table_schemas
               /\ req[r].selected[req[r].idx] \notin DOMAIN table_schemas']_vars

----------------------------------------------------------------------------
\* text is empty or an error context: the lead-in, an error, the request to
\* fix the query.
IsErrorContext(text) ==
  \/ text = <<>>
  \/ /\ Len(text) >= 4
     /\ Slice(text, 1, 3) = <<NL, "Previous attempt failed with error:", SP>>
     /\ Slice(text, Len(text) - 1, Len(text)) = <<NL, "Please fix the query accordingly.">>

(* C32: within one request the Table Selector is called exactly once and   *)
(* the selected table list is fixed: every Synthesizer call of every retry *)
(* attempt receives the same table list and the same original question,    *)
(* the only difference between attempts being the prior-error context.     *)
C32_TablesAndQuestionFixed ==
  \A r \in Reqs :
    LET log == req[r].log
    IN req[r].pc # "idle" =>
         /\ Cardinality(CallsOf(log, "select")) = 1
         /\ Cardinality(ReturnsOf(log, "select")) <= 1
         /\ Cardinality(CallsOf(log, "classifier")) <= 1
         /\ \A i \in CallsOf(log, "synthesize") :
              LET asked == log[First(CallsOf(log, "select"))].val
                  given == log[i].val.question
              IN /\ log[i].val.tables = log[First(ReturnsOf(log, "select"))].val
                 /\ Len(given) >= Len(asked)
                 /\ Slice(given, 1, Len(asked)) = asked
                 /\ IsErrorContext(Slice(given, Len(asked) + 1, Len(given)))
         /\ \A i \in CallsOf(log, "query_generation") :
              /\ log[i].val.question = log[EventOf(log, "synthesize", "call",
                                                   log[i].attempt)].val.question
              /\ [n \in 1..Len(log[i].val.schemas) |-> log[i].val.schemas[n].table]
                   = log[First(ReturnsOf(log, "select"))].val

\* A run of three attempts for two tables, the second and the third with
\* different prior errors.
C32_Witness ==
  \E r \in Reqs :
    LET log == req[r].log
    IN /\ Cardinality(CallsOf(log, "synthesize")) = max_attempts
       /\ req[r].selected = <<TB, TA>>
       /\ log[EventOf(log, "synthesize", "call", 2)].val.question
            # log[EventOf(log, "synthesize", "call", 3)].val.question
       /\ log[EventOf(log, "synthesize", "call", 1)].val.question = req[r].question

----------------------------------------------------------------------------
(* C33: the Summarizer is invoked if and only if the run made at least one *)
(* Executor call and did not end on a synthesis failure: a run that ends   *)
(* because synthesis failed, on any attempt, returns its failure response  *)
(* without calling the Summarizer.                                         *)
C33_SummarizerIffExecuted ==
  \A r \in Reqs :
    LET log == req[r].log
        summarized == CallsOf(log, "summarize") # {}
        executed == CallsOf(log, "execute") # {}
    IN /\ summarized =>
            /\ executed
            /\ \E i \in Synthesized(log) : i > Last(CallsOf(log, "synthesize"))
       /\ req[r].pc = "done" =>
            /\ summarized <=> (executed /\ ~EndedInSynthesizer(req[r]))
            /\ EndedInSynthesizer(req[r]) =>
                 /\ req[r].response.kind \in {"Failed to execute query", "Error"}
                 /\ ReturnsOf(log, "summarize") = {}

\* A run whose first attempt was executed and failed and whose second
\* attempt failed in synthesis: it ended with the failure response and no
\* Summarizer call.
C33_Witness ==
  \E r \in Reqs :
    /\ req[r].pc = "done"
    /\ Cardinality(CallsOf(req[r].log, "execute")) = 1
    /\ Cardinality(CallsOf(req[r].log, "synthesize")) = 2
    /\ req[r].response = FailedToExecute(GenerateError)
    /\ CallsOf(req[r].log, "summarize") = {}

----------------------------------------------------------------------------
\* The kinds of string pipe returns.
StringAnswers ==
  {"Failed to identify relevant tables", "Failed to execute query", "answer", "Error"}

(* C34: pipe never propagates a failure of a pipeline stage to its caller: *)
(* any exception raised while processing a request (the one raised while   *)
(* building the synthesis prompt from cached columns included) is          *)
(* converted into an error-string response, so every request ends with a   *)
(* string answer.                                                          *)
C34_NoFailureLeavesPipe ==
  \A r \in Reqs :
    LET log == req[r].log
    IN /\ \A i \in 1..Len(log) :
            log[i].ph = "raise" =>
              /\ i = Len(log)
              /\ req[r].pc = "done"
              /\ req[r].response = [NoResponse EXCEPT !.kind = "Error",
                                                      !.text = log[i].val]
       /\ req[r].pc = "done" <=> req[r].response.kind \in StringAnswers
       /\ req[r].response.kind \in StringAnswers \cup {"none"}

\* A request for a table whose cached columns are objects: building the
\* prompt raised and the request ended with the error string.
C34_Witness ==
  \E r \in Reqs :
    /\ req[r].pc = "done"
    /\ req[r].response.kind = "Error"
    /\ req[r].response.text # <<>>
    /\ \E i \in 1..Len(req[r].log) :
         req[r].log[i].ph = "raise" /\ req[r].log[i].op = "synthesize"
    /\ \E t \in DOMAIN table_schemas : table_schemas[t] = ColsDict

----------------------------------------------------------------------------
\* The connections that are open after the requests answered so far.
OpenConnections ==
  { r \in Reqs :
      \E i \in ReturnsOf(req[r].log, "connection") :
        req[r].log[i].val.opened /\ ~req[r].log[i].val.closed }

(* C35, as stated: every database connection opened by a Data Access       *)
(* Service endpoint (tables, columns, query) is closed before that         *)
(* endpoint returns, on the success path and on every error path, so that  *)
(* after any sequence of requests no connection remains open.              *)
C35_Original == OpenConnections = {}

=============================================================================
